---- MODULE Spec2Model ----
(***************************************************************************)
(* Model of the go-di dependency-injection container (src/container.go,    *)
(* lines 1-427): a tree of containers, each with an alias list, a list of  *)
(* factory records, an instance cache and a list of pending destructors.   *)
(* Containers are numbered in creation order; container 1 is Registry.     *)
(***************************************************************************)
EXTENDS Integers, Sequences, FiniteSets, TLC

\* ------------------------------------------------------------------ bounds
\* calls of NewScope, Use and UseValue in a run of SpecLookup
MaxSetup == 4
\* calls of NewScope, Use, UseType, UseValue and UseFactory in a run of the
\* specifications whose constructors allocate (Spec, SpecClose)
MaxObjSetup == 3
\* constructed objects that a cache or a pending destructor refers to
MaxLive == 3
\* nesting of Resolve inside constructors (Inject inside UseType's)
MaxDepth == 2
\* calls of NewScope, Use, UseType, UseValue and UseFactory in a run of
\* SpecFactory
MaxFactorySetup == 2
\* calls of NewScope and of the registration methods in a run of each of
\* the specifications with goroutines: SpecRace, SpecThreads, SpecLocks
MaxRaceSetup == 2
MaxThreadSetup == 2
MaxLockSetup == 1

\* ------------------------------------------------------------- vocabulary
Transient == "Transient"
Scoped == "Scoped"
Singleton == "Singleton"
Lifetime == {Transient, Scoped, Singleton}

NoError == "nil"
ErrNoMatchingTag == "no matching tag found"
ErrConstructor == "constructor failed"
ErrDestructor == "destructor failed"

\* An address is <<container, index, this, n>>: the n-th live object that
\* the constructor of record <<container, index>> allocated when called with
\* container this. NoAddr is the address of what is not a pointer.
NoAddr == <<0, 0, 0, 0>>

\* the nil interface value
Nil == [kind |-> "nil", addr |-> NoAddr, name |-> "", fields |-> <<>>]

\* a value handed to UseValue: resolving it yields the value itself
ValueOf(v) == [kind |-> "val", addr |-> NoAddr, name |-> v, fields |-> <<>>]

\* reflect.New(T).Interface(): a pointer to a newly allocated T
PtrTo(addr, typ, fields) ==
    [kind |-> "ptr", addr |-> addr, name |-> typ, fields |-> fields]

\* reflect.Indirect(ptr).Interface(): a copy of the T the pointer refers to
Indirect(p) ==
    [kind |-> "struct", addr |-> NoAddr, name |-> p.name, fields |-> p.fields]

\* The types handed to UseType (reflect.TypeOf(v)): a pointer to a struct
\* without tagged fields, a struct value without tagged fields, and a
\* pointer to a struct with one field tagged di:"a"; and a type handed to
\* Inject only: a pointer to a struct with three fields, tagged di:"a",
\* di:"b" and di:"c" in this order.
TypeNames == {"*S", "S", "*M", "*D"}
TypeIsPtr(t) == t \in {"*S", "*M", "*D"}
TypeIsStruct(t) == t \in {"*S", "S", "*M", "*D"}
TypeFieldTags(t) ==
    IF t = "*M" THEN <<"a">>
    ELSE IF t = "*D" THEN <<"a", "b", "c">>
    ELSE <<>>

\* ------------------------------------------------------------------ state
VARIABLES
    parent,       \* parent[c]: the container c was created from, 0 for Registry
    aliases,      \* aliases[c]: sequence of [Tag, Aliased]
    factories,    \* factories[c]: sequence of factory records
    cache,        \* cache[c]: function from factory identity to instance
    destructors,  \* destructors[c]: sequence of teardown closures
    returned,     \* history: [c, f, val] for every Resolve on c, a caller's or
                  \* one made by Inject, that selected the Scoped or Singleton
                  \* record f and returned val
    lock,         \* lock[c]: the sync.RWMutex of c, [w, r]: the holder of the
                  \* write lock and the holders of the read lock
    threads       \* threads[t]: the call stack of goroutine t and the result
                  \* of its last call

vars == <<parent, aliases, factories, cache, destructors, returned, lock,
          threads>>

\* the goroutines that call into the containers concurrently
Threads == {1, 2}

\* a lock holder is <<goroutine, depth of the call that took the lock>>
NoHolder == <<0, 0>>
Unlocked == [w |-> NoHolder, r |-> {}]

\* the result a goroutine keeps of a Resolve that selected a Scoped or
\* Singleton record
NoRes == [c |-> 0, f |-> <<0, 0>>, val |-> Nil, err |-> NoError]
Idle == [stack |-> <<>>, res |-> NoRes]

Containers == 1..Len(parent)

RECURSIVE SumLen(_, _)
SumLen(s, n) == IF n = 0 THEN 0 ELSE Len(s[n]) + SumLen(s, n - 1)
NumFactories == SumLen(factories, Len(factories))
NumAliases == SumLen(aliases, Len(aliases))
NumSetup == (Len(parent) - 1) + NumAliases + NumFactories

EmptyMap == [x \in {} |-> Nil]

Init ==
    /\ parent = <<0>>
    /\ aliases = <<<<>>>>
    /\ factories = <<<<>>>>
    /\ cache = <<EmptyMap>>
    /\ destructors = <<<<>>>>
    /\ returned = {}
    /\ lock = <<Unlocked>>
    /\ threads = [t \in Threads |-> Idle]

\* ----------------------------------------------------------- registration
NewScope(p) ==
    /\ p \in Containers
    /\ parent' = Append(parent, p)
    /\ aliases' = Append(aliases, <<>>)
    /\ factories' = Append(factories, <<>>)
    /\ cache' = Append(cache, EmptyMap)
    /\ destructors' = Append(destructors, <<>>)
    /\ lock' = Append(lock, Unlocked)
    /\ UNCHANGED <<returned, threads>>

\* A variant of AddFactory that also empties the cache of c.
AddFactoryReset(c, tag, lifetime, ctor, dtor) ==
    /\ c \in Containers
    /\ factories' = [factories EXCEPT ![c] = Append(@,
            [id |-> <<c, Len(factories[c]) + 1>>, Tag |-> tag,
             Lifetime |-> lifetime, Constructor |-> ctor, Destructor |-> dtor])]
    /\ cache' = [cache EXCEPT ![c] = EmptyMap]
    /\ UNCHANGED <<parent, aliases, destructors, returned, lock, threads>>

\* append(this.factories, &factory{...}). The identity of the new record
\* (its address, the key of the caches) is its place: container and index.
AddFactory(c, tag, lifetime, ctor, dtor) ==
    /\ c \in Containers
    /\ factories' = [factories EXCEPT ![c] = Append(@,
            [id |-> <<c, Len(factories[c]) + 1>>, Tag |-> tag,
             Lifetime |-> lifetime, Constructor |-> ctor, Destructor |-> dtor])]
    /\ UNCHANGED <<parent, aliases, cache, destructors, returned, lock,
                   threads>>

UseType(c, tag, typ, lifetime) ==
    AddFactory(c, tag, lifetime, [kind |-> "type", arg |-> typ], "nil")

UseValue(c, tag, v) ==
    AddFactory(c, tag, Transient, [kind |-> "value", arg |-> v], "nil")

UseFactory(c, tag, ctor, dtor, lifetime) ==
    AddFactory(c, tag, lifetime, [kind |-> "user", arg |-> ctor], dtor)

Use(c, tag, tagOrTypeName) ==
    /\ c \in Containers
    /\ aliases' = [aliases EXCEPT ![c] = Append(@,
            [Tag |-> tag, Aliased |-> tagOrTypeName])]
    /\ UNCHANGED <<parent, factories, cache, destructors, returned, lock,
                   threads>>

\* ------------------------------------------------------- alias resolution
Contains(tags, tag) == \E j \in 1..Len(tags) : tags[j] = tag

\* A variant of ScanAliases without the check for a tag already collected.
RECURSIVE ScanAliasesUnchecked(_, _, _, _)
ScanAliasesUnchecked(as, k, tags, i) ==
    IF k > Len(as) THEN tags
    ELSE IF tags[i] # as[k].Tag THEN ScanAliasesUnchecked(as, k + 1, tags, i)
    ELSE ScanAliasesUnchecked(as, k + 1, Append(tags, as[k].Aliased), i)

\* for _, alias := range c.aliases { ... }, from the k-th alias on
RECURSIVE ScanAliases(_, _, _, _)
ScanAliases(as, k, tags, i) ==
    IF k > Len(as) THEN tags
    ELSE IF tags[i] # as[k].Tag THEN ScanAliases(as, k + 1, tags, i)
    ELSE IF Contains(tags, as[k].Aliased) THEN ScanAliases(as, k + 1, tags, i)
    ELSE ScanAliases(as, k + 1, Append(tags, as[k].Aliased), i)

\* A variant of ScanChain that follows only the aliases declared on c itself.
ScanThisOnly(c, tags, i) ==
    IF c = 0 THEN tags ELSE ScanAliases(aliases[c], 1, tags, i)

\* for c := this; c != nil; c = c.parent { ... }
RECURSIVE ScanChain(_, _, _)
ScanChain(c, tags, i) ==
    IF c = 0 THEN tags
    ELSE ScanChain(parent[c], ScanAliases(aliases[c], 1, tags, i), i)

\* for i := 0; i < len(tags); i++ { ... }
RECURSIVE AliasLoop(_, _, _)
AliasLoop(this, tags, i) ==
    IF i > Len(tags) THEN tags
    ELSE AliasLoop(this, ScanChain(this, tags, i), i + 1)

resolveAliases(this, tag) == AliasLoop(this, <<tag>>, 1)

\* the same loop, given up after n iterations: the tags collected and
\* whether the loop came to its end (i reached len(tags))
RECURSIVE AliasLoopWithin(_, _, _, _)
AliasLoopWithin(this, tags, i, n) ==
    IF i > Len(tags) THEN [tags |-> tags, done |-> TRUE]
    ELSE IF n = 0 THEN [tags |-> tags, done |-> FALSE]
    ELSE AliasLoopWithin(this, ScanChain(this, tags, i), i + 1, n - 1)

\* ---------------------------------------------------------- record lookup
NoId == <<0, 0>>
NoFactory ==
    [id |-> NoId, Tag |-> "", Lifetime |-> Transient,
     Constructor |-> [kind |-> "", arg |-> ""], Destructor |-> "nil"]

\* A variant of ScanFactories that scans from the oldest registration on.
ScanOldestFirst(fs, i, tags) ==
    IF \E j \in 1..i : Contains(tags, fs[j].Tag)
    THEN CHOOSE j \in 1..i :
             /\ Contains(tags, fs[j].Tag)
             /\ \A k \in 1..(j - 1) : ~Contains(tags, fs[k].Tag)
    ELSE 0

\* for i := len(c.factories) - 1; 0 <= i; i-- : the first match, 0 if none
RECURSIVE ScanFactories(_, _, _)
ScanFactories(fs, i, tags) ==
    IF i = 0 THEN 0
    ELSE IF Contains(tags, fs[i].Tag) THEN i
    ELSE ScanFactories(fs, i - 1, tags)

\* the search of Resolve: this, then its parent, and so on
RECURSIVE FindFactory(_, _)
FindFactory(c, tags) ==
    IF c = 0 THEN NoFactory
    ELSE LET i == ScanFactories(factories[c], Len(factories[c]), tags)
         IN  IF i # 0 THEN factories[c][i] ELSE FindFactory(parent[c], tags)

\* the inner loop of ResolveAll: every match, newest first
RECURSIVE CollectFactories(_, _, _)
CollectFactories(fs, i, tags) ==
    IF i = 0 THEN <<>>
    ELSE IF Contains(tags, fs[i].Tag)
         THEN <<fs[i]>> \o CollectFactories(fs, i - 1, tags)
         ELSE CollectFactories(fs, i - 1, tags)

\* A variant of MatchingFactories that collects the ancestors' records
\* before those of c.
RECURSIVE MatchingAncestorsFirst(_, _)
MatchingAncestorsFirst(c, tags) ==
    IF c = 0 THEN <<>>
    ELSE MatchingAncestorsFirst(parent[c], tags)
             \o CollectFactories(factories[c], Len(factories[c]), tags)

\* the search of ResolveAll: this, then its parent, and so on
RECURSIVE MatchingFactories(_, _)
MatchingFactories(c, tags) ==
    IF c = 0 THEN <<>>
    ELSE CollectFactories(factories[c], Len(factories[c]), tags)
             \o MatchingFactories(parent[c], tags)

\* root := func(c) { for ; c.parent != nil; c = c.parent {}; return c }
RECURSIVE Root(_)
Root(c) == IF parent[c] = 0 THEN c ELSE Root(parent[c])

\* ------------------------------------------------- construction and cache
\* What a call threads through its nested calls: the caches, the destructor
\* lists, the objects allocated during the call, the constructors run so
\* far, what the Resolve calls made so far returned (as in returned), and
\* whether the nesting went deeper than MaxDepth.
Now ==
    [cache |-> cache, destructors |-> destructors, held |-> {},
     called |-> <<>>, got |-> {}, overflow |-> FALSE]

\* the addresses an instance refers to: its own and those of its fields
RECURSIVE AddrsOf(_)
AddrsOf(v) ==
    (IF v.kind = "ptr" THEN {v.addr} ELSE {})
        \cup UNION {AddrsOf(v.fields[i]) : i \in 1..Len(v.fields)}

\* the objects the caches and the pending destructors of st refer to
Stored(st) ==
    UNION {UNION {AddrsOf(st.cache[c][id]) : id \in DOMAIN st.cache[c]}
               \cup UNION {AddrsOf(st.destructors[c][i].instance) :
                              i \in 1..Len(st.destructors[c])} :
           c \in 1..Len(st.cache)}

\* the objects in use: stored, allocated during the call, or handed out by
\* an earlier Resolve of a cached lifetime
Live(st) == Stored(st) \cup st.held \cup UNION {AddrsOf(x.val) : x \in returned}

\* the allocator: an address that no object in use has
FreshAddr(st, f, this) ==
    LET used == {a[4] : a \in {x \in Live(st) :
                     x[1] = f.id[1] /\ x[2] = f.id[2] /\ x[3] = this}}
    IN  <<f.id[1], f.id[2], this,
          CHOOSE n \in 1..(Cardinality(used) + 1) :
              n \notin used /\ \A m \in 1..(n - 1) : m \in used>>

Allocate(st, addr) == [st EXCEPT !.held = @ \cup {addr}]

Result(st, val, err) == [st |-> st, val |-> val, err |-> err]

RECURSIVE createInstance(_, _, _, _)
RECURSIVE ResolveCall(_, _, _, _)
RECURSIVE InjectFields(_, _, _, _, _, _)
RECURSIVE Assign(_, _, _, _, _, _)

\* Inject's loop over the fields of the struct, from field i on. tags[i] is
\* the di tag of field i ("" when it has none), fields the values so far.
InjectFields(st, this, tags, fields, i, d) ==
    IF i > Len(tags) THEN [st |-> st, fields |-> fields, err |-> NoError]
    ELSE IF tags[i] = "" THEN InjectFields(st, this, tags, fields, i + 1, d)
    ELSE IF d = 0
         THEN [st |-> [st EXCEPT !.overflow = TRUE], fields |-> fields,
               err |-> NoError]
         ELSE Assign(ResolveCall(st, this, tags[i], d - 1), this, tags, fields,
                     i, d)

\* A variant of Assign that leaves the field alone when its Resolve failed
\* and goes on with the next field.
AssignOthers(r, this, tags, fields, i, d) ==
    IF r.err # NoError
    THEN InjectFields(r.st, this, tags, fields, i + 1, d)
    ELSE InjectFields(r.st, this, tags, [fields EXCEPT ![i] = r.val], i + 1, d)

\* fi, err := this.Resolve(tag); if err != nil { return err };
\* val.Field(i).Set(reflect.ValueOf(fi)), and on to the next field
Assign(r, this, tags, fields, i, d) ==
    IF r.err # NoError
    THEN [st |-> r.st, fields |-> fields, err |-> r.err]
    ELSE InjectFields(r.st, this, tags, [fields EXCEPT ![i] = r.val], i + 1, d)

ZeroFields(typ) == [i \in 1..Len(TypeFieldTags(typ)) |-> Nil]

\* return ptrInstance.Interface(), nil /
\* return reflect.Indirect(ptrInstance).Interface(), nil
\* (inj is what Inject did; its error is not looked at)
TypeInstance(inj, addr, typ) ==
    IF TypeIsPtr(typ)
    THEN Result(inj.st, PtrTo(addr, typ, inj.fields), NoError)
    ELSE Result(inj.st, Indirect(PtrTo(addr, typ, inj.fields)), NoError)

\* ptrInstance := reflect.New(instanceType), at addr;
\* if instanceType.Kind() == reflect.Struct { c.Inject(ptrInstance) }
TypeAllocated(st, c, typ, addr, d) ==
    IF TypeIsStruct(typ)
    THEN TypeInstance(InjectFields(Allocate(st, addr), c, TypeFieldTags(typ),
                                   ZeroFields(typ), 1, d), addr, typ)
    ELSE TypeInstance([st |-> Allocate(st, addr), fields |-> ZeroFields(typ),
                       err |-> NoError], addr, typ)

\* A variant of TypeConstructor that injects from the container the type
\* was registered on.
TypeConstructorAtHome(st, c, f, d) ==
    TypeAllocated(st, f.id[1], f.Constructor.arg, FreshAddr(st, f, c), d)

\* the constructor UseType derives
TypeConstructor(st, c, f, d) ==
    TypeAllocated(st, c, f.Constructor.arg, FreshAddr(st, f, c), d)

\* the constructor UseValue derives: return v, nil
ValueConstructor(st, v) == Result(st, ValueOf(v), NoError)

UserAllocated(st, addr) ==
    Result(Allocate(st, addr), PtrTo(addr, "obj", <<>>), NoError)

\* the constructors handed to UseFactory: "new" returns a pointer to a new
\* object (return &MyStruct{}, nil), "fail" returns an error
UserConstructor(st, c, f) ==
    IF f.Constructor.arg = "new"
    THEN UserAllocated(st, FreshAddr(st, f, c))
    ELSE Result(st, Nil, ErrConstructor)

Called(st, f) == [st EXCEPT !.called = Append(@, f.id)]

\* A variant of Construct that hands the root to the constructor of a
\* Singleton record.
ConstructAtRoot(st, this, f, d) ==
    CASE f.Constructor.kind = "value" ->
            ValueConstructor(Called(st, f), f.Constructor.arg)
      [] f.Constructor.kind = "type" ->
            TypeConstructor(Called(st, f),
                            IF f.Lifetime = Singleton THEN Root(this) ELSE this,
                            f, d)
      [] OTHER -> UserConstructor(Called(st, f), this, f)

\* f.Constructor(this)
Construct(st, this, f, d) ==
    CASE f.Constructor.kind = "value" ->
            ValueConstructor(Called(st, f), f.Constructor.arg)
      [] f.Constructor.kind = "type" -> TypeConstructor(Called(st, f), this, f, d)
      [] OTHER -> UserConstructor(Called(st, f), this, f)

\* Variants of Owner: one that keeps every cached instance on the root, one
\* that keeps every cached instance on the container the call was made on.
OwnerRoot(this, f) == Root(this)
OwnerThis(this, f) == this

\* the container whose cache and destructor list hold the instances of f
\* made through this
Owner(this, f) == IF f.Lifetime = Singleton THEN Root(this) ELSE this

\* cached, ok := this.cache[f] / root.cache[f]
CacheHit(st, this, f) ==
    /\ f.Lifetime # Transient
    /\ f.id \in DOMAIN st.cache[Owner(this, f)]

\* A variant of StoreCache that stores the instances of every lifetime.
StoreAnyLifetime(st, this, f, instance) ==
    [st EXCEPT !.cache[Owner(this, f)] = (f.id :> instance) @@ @]

\* A variant of StoreCache that keeps the instance already cached.
StoreIfAbsent(st, this, f, instance) ==
    IF f.Lifetime = Transient \/ f.id \in DOMAIN st.cache[Owner(this, f)]
    THEN st
    ELSE [st EXCEPT !.cache[Owner(this, f)] = (f.id :> instance) @@ @]

\* this.cache[f] = instance / root.cache[f] = instance
StoreCache(st, this, f, instance) ==
    IF f.Lifetime = Transient THEN st
    ELSE [st EXCEPT !.cache[Owner(this, f)] = (f.id :> instance) @@ @]

\* append(this.destructors, func() error { return f.Destructor(instance) })
\* / append(root.destructors, ...)
RecordDestructor(st, this, f, instance) ==
    IF f.Destructor = "nil" THEN st
    ELSE [st EXCEPT !.destructors[Owner(this, f)] = Append(@,
            [f |-> f.id, Destructor |-> f.Destructor, instance |-> instance])]

\* A variant of Constructed that stores and records whatever the
\* constructor returned, error or not.
ConstructedAnyway(r, this, f) ==
    Result(RecordDestructor(StoreCache(r.st, this, f, r.val), this, f, r.val),
           r.val, r.err)

\* createInstance after instance, err := f.Constructor(this)
Constructed(r, this, f) ==
    IF r.err # NoError THEN r
    ELSE Result(RecordDestructor(StoreCache(r.st, this, f, r.val), this, f,
                                 r.val),
                r.val, NoError)

\* A variant of createInstance that records a destructor for a cached
\* instance too.
createInstanceRecording(st, this, f, d) ==
    IF CacheHit(st, this, f)
    THEN Result(RecordDestructor(st, this, f, st.cache[Owner(this, f)][f.id]),
                st.cache[Owner(this, f)][f.id], NoError)
    ELSE Constructed(Construct(st, this, f, d), this, f)

\* return cached, nil on a hit; else construct, store, record
createInstance(st, this, f, d) ==
    IF CacheHit(st, this, f)
    THEN Result(st, st.cache[Owner(this, f)][f.id], NoError)
    ELSE Constructed(Construct(st, this, f, d), this, f)

\* ---------------------------------------------------------------- Resolve
\* return this.createInstance(factory): r is what createInstance returned,
\* sel the record found
Selected(r, this, f) ==
    [st |-> IF r.err = NoError /\ f.Lifetime # Transient
            THEN [r.st EXCEPT !.got = @ \cup
                     {[c |-> this, f |-> f.id, val |-> r.val]}]
            ELSE r.st,
     val |-> r.val, err |-> r.err, sel |-> f.id]

\* A variant of Found that returns nil and no error when nothing was found.
FoundOrNil(st, this, f, d) ==
    IF f.id # NoId
    THEN Selected(createInstance(st, this, f, d), this, f)
    ELSE [st |-> st, val |-> Nil, err |-> NoError, sel |-> NoId]

\* if found { return this.createInstance(factory) }
\* else { return nil, ErrNoMatchingTag }
Found(st, this, f, d) ==
    IF f.id # NoId
    THEN Selected(createInstance(st, this, f, d), this, f)
    ELSE [st |-> st, val |-> Nil, err |-> ErrNoMatchingTag, sel |-> NoId]

ResolveCall(st, this, tag, d) ==
    Found(st, this, FindFactory(this, resolveAliases(this, tag)), d)

\* the call returns: what it stored is the new state
Commit(st) ==
    /\ ~st.overflow
    /\ Cardinality(Stored(st)) <= MaxLive
    /\ cache' = st.cache
    /\ destructors' = st.destructors
    /\ returned' = returned \cup st.got
    /\ UNCHANGED <<parent, aliases, factories, lock, threads>>

Resolve(c, tag) ==
    /\ c \in Containers
    /\ Commit(ResolveCall(Now, c, tag, MaxDepth).st)

\* ------------------------------------------------------------- ResolveAll
RECURSIVE ConstructAll(_, _, _, _, _, _)
RECURSIVE Collect(_, _, _, _, _, _)

\* for i := len(factories) - 1; 0 <= i; i-- { v, err := createInstance ... }
ConstructAll(st, this, fs, i, instances, sels) ==
    IF i = 0
    THEN [st |-> st, vals |-> instances, sels |-> sels, err |-> NoError]
    ELSE Collect(createInstance(st, this, fs[i], MaxDepth), this, fs, i,
                 instances, sels)

\* A variant of Collect that leaves out the record whose constructor failed
\* and goes on with the next one.
CollectOthers(r, this, fs, i, instances, sels) ==
    IF r.err # NoError
    THEN ConstructAll(r.st, this, fs, i - 1, instances, sels)
    ELSE ConstructAll(r.st, this, fs, i - 1, Append(instances, r.val),
                      Append(sels, fs[i].id))

\* if err != nil { return nil, err }; instances = append(instances, v)
\* (sels: the records the instances come from, in the order of instances)
Collect(r, this, fs, i, instances, sels) ==
    IF r.err # NoError
    THEN [st |-> r.st, vals |-> <<>>, sels |-> <<>>, err |-> r.err]
    ELSE ConstructAll(r.st, this, fs, i - 1, Append(instances, r.val),
                      Append(sels, fs[i].id))

\* A variant of ConstructMatching that fails as Resolve does when no record
\* matched.
ConstructOrFail(st, this, fs) ==
    IF fs = <<>>
    THEN [st |-> st, vals |-> <<>>, sels |-> <<>>, err |-> ErrNoMatchingTag]
    ELSE ConstructAll(st, this, fs, Len(fs), <<>>, <<>>)

\* the second loop of ResolveAll, over the records collected
ConstructMatching(st, this, fs) == ConstructAll(st, this, fs, Len(fs), <<>>, <<>>)

ResolveAllCall(st, this, tag) ==
    ConstructMatching(st, this, MatchingFactories(this, resolveAliases(this, tag)))

ResolveAll(c, tag) ==
    /\ c \in Containers
    /\ Commit(ResolveAllCall(Now, c, tag).st)

\* ----------------------------------------------------------------- Inject
\* Inject(v) for a caller's v := &T{}: the fields of v after the call, and
\* the error returned
InjectCall(st, c, typ) ==
    InjectFields(st, c, TypeFieldTags(typ), ZeroFields(typ), 1, MaxDepth)

Inject(c, typ) ==
    /\ c \in Containers
    /\ TypeIsStruct(typ)
    /\ Commit(InjectCall(Now, c, typ).st)

\* ------------------------------------------------------------------ Close
\* A variant of RunDestructors that starts with the closure recorded first.
RECURSIVE RunOldestFirst(_, _, _)
RunOldestFirst(dtors, i, invoked) ==
    IF i = 0 THEN [invoked |-> invoked, err |-> NoError]
    ELSE IF dtors[Len(dtors) - i + 1].Destructor = "fail"
         THEN [invoked |-> Append(invoked, dtors[Len(dtors) - i + 1]),
               err |-> ErrDestructor]
         ELSE RunOldestFirst(dtors, i - 1,
                             Append(invoked, dtors[Len(dtors) - i + 1]))

\* A variant of RunDestructors that goes on after a closure failed and
\* returns the error at the end.
RECURSIVE RunPastFailure(_, _, _)
RunPastFailure(dtors, i, invoked) ==
    IF i = 0
    THEN [invoked |-> invoked,
          err |-> IF \E k \in 1..Len(dtors) : dtors[k].Destructor = "fail"
                  THEN ErrDestructor ELSE NoError]
    ELSE RunPastFailure(dtors, i - 1, Append(invoked, dtors[i]))

\* for i := len(dtors) - 1; 0 <= i; i-- { err := dtors[i](); ... }:
\* the closures invoked, in order, and the error returned
RECURSIVE RunDestructors(_, _, _)
RunDestructors(dtors, i, invoked) ==
    IF i = 0 THEN [invoked |-> invoked, err |-> NoError]
    ELSE IF dtors[i].Destructor = "fail"
         THEN [invoked |-> Append(invoked, dtors[i]), err |-> ErrDestructor]
         ELSE RunDestructors(dtors, i - 1, Append(invoked, dtors[i]))

\* A variant of Close that also drains the list of the parent of c.
CloseWithParent(c) ==
    /\ c \in Containers
    /\ destructors' = [k \in 1..Len(destructors) |->
            IF k = c \/ k = parent[c] THEN <<>> ELSE destructors[k]]
    /\ UNCHANGED <<parent, aliases, factories, cache, returned, lock, threads>>

\* A variant of Close that also empties the cache of c.
CloseEvicting(c) ==
    /\ c \in Containers
    /\ destructors' = [destructors EXCEPT ![c] = <<>>]
    /\ cache' = [cache EXCEPT ![c] = EmptyMap]
    /\ UNCHANGED <<parent, aliases, factories, returned, lock, threads>>

\* what Close on c invokes and returns, given the list it snapshots
CloseCall(c) == RunDestructors(destructors[c], Len(destructors[c]), <<>>)

\* A variant of Close that puts the closures it did not invoke back on
\* the list.
CloseKeepingSkipped(c) ==
    /\ c \in Containers
    /\ destructors' = [destructors EXCEPT ![c] =
            SubSeq(@, 1, Len(@) - Len(CloseCall(c).invoked))]
    /\ UNCHANGED <<parent, aliases, factories, cache, returned, lock, threads>>

Close(c) ==
    /\ c \in Containers
    /\ destructors' = [destructors EXCEPT ![c] = <<>>]
    /\ UNCHANGED <<parent, aliases, factories, cache, returned, lock, threads>>

\* ------------------------------------------------------------- goroutines
\* The same methods, called by goroutines, in the steps the locks cut them
\* into. A goroutine has a stack of frames, one per call in progress: the
\* call it was asked to make and, above it, the Resolve that Inject makes
\* for a constructor of UseType. A frame is at one of these places:
\*   "enter"     before this.lock.RLock() / this.lock.Lock()
\*   "search"    Resolve, ResolveAll: holding this.lock.RLock(), reading the
\*               alias and factory lists of this and its ancestors
\*   "lookup"    createInstance, before the cache lookup
\*   "construct" createInstance, in f.Constructor(this)
\*   "inject"    in the constructor of UseType, inside c.Inject
\*   "store"     createInstance, before the cache store
\*   "record"    createInstance, before the append to the destructor list
\*   "return"    a Resolve made by Inject, returning
\*   "append"    a registration: holding this.lock.Lock(), appending
\*   "snapshot"  Close: holding this.lock.Lock(), copying the list
\*   "run"       Close: invoking the copied closures
\*   "panic"     the goroutine panicked
\* The cache lookup, the cache store and the destructor append each take the
\* owner's lock for one access: each is one step, possible when the lock is
\* free.
NoPend ==
    [kind |-> "", Tag |-> "", Aliased |-> "", Lifetime |-> Transient,
     Constructor |-> [kind |-> "", arg |-> ""], Destructor |-> "nil"]

Frame(op, pc, c, tag, pend) ==
    [op |-> op, pc |-> pc, c |-> c, tag |-> tag, fs |-> <<>>, val |-> Nil,
     vals |-> <<>>, err |-> NoError, pend |-> pend, dtors |-> <<>>]

\* &factory{Tag, Lifetime, Constructor, Destructor} / &alias{Tag, Aliased},
\* about to be appended
PendFactory(tag, lifetime, ctor, dtor) ==
    [NoPend EXCEPT !.kind = "factory", !.Tag = tag, !.Lifetime = lifetime,
                   !.Constructor = ctor, !.Destructor = dtor]

PendAlias(tag, aliased) ==
    [NoPend EXCEPT !.kind = "alias", !.Tag = tag, !.Aliased = aliased]

Depth(t) == Len(threads[t].stack)
Top(t) == threads[t].stack[Depth(t)]
Holder(t) == <<t, Depth(t)>>
At(t, pc) == Depth(t) > 0 /\ Top(t).pc = pc

\* the registrations in progress
NumPending ==
    Cardinality({t \in Threads : Depth(t) > 0 /\ Top(t).op = "Register"})

\* the objects the goroutines hold: in their frames and in their results
FrameAddrs(fr) ==
    AddrsOf(fr.val)
        \cup UNION {AddrsOf(fr.vals[k]) : k \in 1..Len(fr.vals)}
        \cup UNION {AddrsOf(fr.dtors[k].instance) : k \in 1..Len(fr.dtors)}

ThreadAddrs ==
    UNION {AddrsOf(threads[t].res.val)
               \cup UNION {FrameAddrs(threads[t].stack[k]) :
                              k \in 1..Len(threads[t].stack)} :
           t \in Threads}

NowHeld == [Now EXCEPT !.held = ThreadAddrs]

SetTop(t, fr) == [threads EXCEPT ![t].stack[Depth(t)] = fr]

\* the record createInstance is working on: the last of those left
Current(fr) == factories[fr.fs[Len(fr.fs)][1]][fr.fs[Len(fr.fs)][2]]

\* where createInstance starts for record f
BeginPc(f) == IF f.Lifetime = Transient THEN "construct" ELSE "lookup"

\* where createInstance goes on after the constructor returned an instance
AfterBuilt(f) ==
    IF f.Lifetime # Transient THEN "store"
    ELSE IF f.Destructor # "nil" THEN "record"
    ELSE "done"

\* the call of the top frame returns val, err: to the caller of the
\* goroutine, or to the Inject that made the call
Finish(th, val, err, sel) ==
    LET n == Len(th.stack)
        fr == th.stack[n]
    IN  IF n = 1
        THEN [stack |-> <<>>,
              res |-> IF fr.op = "Resolve" /\ err = NoError /\ sel # NoId
                      THEN [c |-> fr.c, f |-> sel, val |-> val, err |-> err]
                      ELSE NoRes]
        ELSE [th EXCEPT !.stack[n] =
                 [fr EXCEPT !.pc = "return", !.val = val, !.err = err,
                            !.fs = <<>>, !.vals = <<>>]]

\* createInstance returned val, nil for the current record: Resolve returns
\* it, ResolveAll appends it and goes on with the next record
Done(th, val) ==
    LET n == Len(th.stack)
        fr == th.stack[n]
        f == Current(fr)
        rest == SubSeq(fr.fs, 1, Len(fr.fs) - 1)
    IN  IF rest = <<>>
        THEN Finish(th, IF fr.op = "Resolve" THEN val ELSE Nil, NoError,
                    IF f.Lifetime = Transient THEN NoId ELSE f.id)
        ELSE [th EXCEPT !.stack[n] =
                 [fr EXCEPT !.fs = rest, !.vals = Append(fr.vals, val),
                            !.val = Nil,
                            !.pc = BeginPc(factories[rest[Len(rest)][1]]
                                                    [rest[Len(rest)][2]])]]

\* the constructor returned val, nil: on to the store, the append, or out
Built(th, val) ==
    LET n == Len(th.stack)
        fr == th.stack[n]
        pc == AfterBuilt(Current(fr))
    IN  IF pc = "done" THEN Done(th, val)
        ELSE [th EXCEPT !.stack[n] = [fr EXCEPT !.val = val, !.pc = pc]]

ThreadsOnly == UNCHANGED <<parent, aliases, factories, cache, destructors,
                           returned, lock>>

\* go c.Resolve(tag) / go c.ResolveAll(tag) / go c.Close()
StartCall(t, op, c, tag) ==
    /\ Depth(t) = 0
    /\ c \in Containers
    /\ threads' = [threads EXCEPT ![t] =
            [stack |-> <<Frame(op, "enter", c, tag, NoPend)>>, res |-> NoRes]]
    /\ ThreadsOnly

\* go c.UseValue(...) / go c.UseFactory(...) / go c.UseType(...) /
\* go c.Use(...)
StartRegister(t, c, pend) ==
    /\ Depth(t) = 0
    /\ c \in Containers
    /\ threads' = [threads EXCEPT ![t] =
            [stack |-> <<Frame("Register", "enter", c, "", pend)>>,
             res |-> NoRes]]
    /\ ThreadsOnly

\* this.lock.RLock()
EnterRead(t) ==
    /\ At(t, "enter") /\ Top(t).op \in {"Resolve", "ResolveAll"}
    /\ lock[Top(t).c].w = NoHolder
    /\ lock' = [lock EXCEPT ![Top(t).c].r = @ \cup {Holder(t)}]
    /\ threads' = SetTop(t, [Top(t) EXCEPT !.pc = "search"])
    /\ UNCHANGED <<parent, aliases, factories, cache, destructors, returned>>

\* this.lock.Lock()
EnterWrite(t) ==
    /\ At(t, "enter") /\ Top(t).op \in {"Register", "Close"}
    /\ lock[Top(t).c] = Unlocked
    /\ lock' = [lock EXCEPT ![Top(t).c].w = Holder(t)]
    /\ threads' = SetTop(t, [Top(t) EXCEPT !.pc =
            IF Top(t).op = "Register" THEN "append" ELSE "snapshot"])
    /\ UNCHANGED <<parent, aliases, factories, cache, destructors, returned>>

\* the records the search of the top frame finds, the one to construct
\* first last
SearchResult(fr) ==
    LET tags == resolveAliases(fr.c, fr.tag)
    IN  IF fr.op = "Resolve"
        THEN LET f == FindFactory(fr.c, tags)
             IN  IF f.id = NoId THEN <<>> ELSE <<f.id>>
        ELSE LET fs == MatchingFactories(fr.c, tags)
             IN  [k \in 1..Len(fs) |-> fs[k].id]

Searched(th, fs) ==
    LET n == Len(th.stack)
        fr == th.stack[n]
    IN  IF fs = <<>>
        THEN Finish(th, Nil,
                    IF fr.op = "Resolve" THEN ErrNoMatchingTag ELSE NoError,
                    NoId)
        ELSE [th EXCEPT !.stack[n] =
                 [fr EXCEPT !.fs = fs,
                            !.pc = BeginPc(factories[fs[Len(fs)][1]]
                                                    [fs[Len(fs)][2]])]]

\* A variant of RUnlock that keeps the read lock.
KeepLock(t) == lock

\* this.lock.RUnlock()
RUnlock(t) == [lock EXCEPT ![Top(t).c].r = @ \ {Holder(t)}]

\* tags := this.resolveAliases(tag); the search loop; RUnlock (deferred)
Search(t) ==
    /\ At(t, "search")
    /\ lock' = RUnlock(t)
    /\ threads' = [threads EXCEPT ![t] = Searched(@, SearchResult(Top(t)))]
    /\ UNCHANGED <<parent, aliases, factories, cache, destructors, returned>>

\* goroutine t reads the lists of container k: it is searching from k or
\* from a descendant of k
RECURSIVE Reaches(_, _)
Reaches(c, k) == c # 0 /\ (c = k \/ Reaches(parent[c], k))

Reads(t, k) == At(t, "search") /\ Reaches(Top(t).c, k)

\* goroutine t is appending to a list of container k
Appends(t, k) == At(t, "append") /\ Top(t).c = k

\* goroutine t reads a list while another appends to it
Races(t) ==
    \E k \in Containers, u \in Threads \ {t} : Reads(t, k) /\ Appends(u, k)

\* A read of a slice that another goroutine appends to sees the slice as it
\* was, as it will be (both are the Search before or after the append), or a
\* slice header or element half written: the goroutine panics, the deferred
\* RUnlock runs.
SearchTorn(t) ==
    /\ Races(t)
    /\ lock' = RUnlock(t)
    /\ threads' = [threads EXCEPT ![t].stack =
            <<[Top(t) EXCEPT !.pc = "panic"]>>]
    /\ UNCHANGED <<parent, aliases, factories, cache, destructors, returned>>

\* this.lock.RLock(); cached, ok := this.cache[f]; this.lock.RUnlock()
\* (root for Singleton); if ok { return cached, nil }
Lookup(t) ==
    /\ At(t, "lookup")
    /\ lock[Owner(Top(t).c, Current(Top(t)))].w = NoHolder
    /\ threads' = [threads EXCEPT ![t] =
            IF CacheHit(Now, Top(t).c, Current(Top(t)))
            THEN Done(@, cache[Owner(Top(t).c, Current(Top(t)))]
                              [Current(Top(t)).id])
            ELSE [@ EXCEPT !.stack[Depth(t)].pc = "construct"]]
    /\ ThreadsOnly

\* instance, err := f.Constructor(this), for the constructors that return
\* without calling into the container
ConstructPlain(t) ==
    /\ At(t, "construct")
    /\ TypeFieldTags(Current(Top(t)).Constructor.arg) = <<>>
    /\ threads' = [threads EXCEPT ![t] =
            IF Construct(NowHeld, Top(t).c, Current(Top(t)), 0).err = NoError
            THEN Built(@, Construct(NowHeld, Top(t).c, Current(Top(t)), 0).val)
            ELSE Finish(@, Nil, ErrConstructor, NoId)]
    /\ ThreadsOnly

\* the constructor of UseType for a struct with a tagged field:
\* reflect.New, then c.Inject, whose loop calls this.Resolve(tag)
ConstructInject(t) ==
    /\ At(t, "construct")
    /\ TypeFieldTags(Current(Top(t)).Constructor.arg) # <<>>
    /\ threads' = [threads EXCEPT ![t].stack =
            Append(SubSeq(@, 1, Depth(t) - 1),
                   [Top(t) EXCEPT !.pc = "inject",
                        !.val = PtrTo(FreshAddr(NowHeld, Current(Top(t)),
                                                Top(t).c),
                                      Current(Top(t)).Constructor.arg,
                                      ZeroFields(Current(Top(t)).Constructor.arg))])
            \o <<Frame("Resolve", "enter", Top(t).c,
                       TypeFieldTags(Current(Top(t)).Constructor.arg)[1],
                       NoPend)>>]
    /\ ThreadsOnly

\* the constructor's instance once Inject's Resolve returned val, err: the
\* field is set when err is nil, and the error is not looked at
Injected(inst, val, err) ==
    IF err = NoError THEN [inst EXCEPT !.fields[1] = val] ELSE inst

\* fi, err := this.Resolve(tag) returns to Inject, Inject to the
\* constructor, the constructor to createInstance
Returned(t) ==
    /\ At(t, "return")
    /\ threads' = [threads EXCEPT ![t] =
            Built([@ EXCEPT !.stack = SubSeq(@, 1, Depth(t) - 1)],
                  Injected(threads[t].stack[Depth(t) - 1].val, Top(t).val,
                           Top(t).err))]
    /\ ThreadsOnly

\* this.lock.Lock(); this.cache[f] = instance; this.lock.Unlock()
\* (root for Singleton)
Store(t) ==
    /\ At(t, "store")
    /\ lock[Owner(Top(t).c, Current(Top(t)))] = Unlocked
    /\ cache' = StoreCache(Now, Top(t).c, Current(Top(t)), Top(t).val).cache
    /\ threads' = [threads EXCEPT ![t] =
            IF Current(Top(t)).Destructor # "nil"
            THEN [@ EXCEPT !.stack[Depth(t)].pc = "record"]
            ELSE Done(@, Top(t).val)]
    /\ UNCHANGED <<parent, aliases, factories, destructors, returned, lock>>

\* this.lock.Lock(); this.destructors = append(this.destructors, ...);
\* this.lock.Unlock() (root for Singleton)
Record(t) ==
    /\ At(t, "record")
    /\ lock[Owner(Top(t).c, Current(Top(t)))] = Unlocked
    /\ destructors' = RecordDestructor(Now, Top(t).c, Current(Top(t)),
                                       Top(t).val).destructors
    /\ threads' = [threads EXCEPT ![t] = Done(@, Top(t).val)]
    /\ UNCHANGED <<parent, aliases, factories, cache, returned, lock>>

\* this.factories = append(this.factories, ...) /
\* this.aliases = append(this.aliases, ...); Unlock (deferred)
AppendPending(t) ==
    /\ At(t, "append")
    /\ factories' =
          IF Top(t).pend.kind = "factory"
          THEN [factories EXCEPT ![Top(t).c] = Append(@,
                  [id |-> <<Top(t).c, Len(factories[Top(t).c]) + 1>>,
                   Tag |-> Top(t).pend.Tag,
                   Lifetime |-> Top(t).pend.Lifetime,
                   Constructor |-> Top(t).pend.Constructor,
                   Destructor |-> Top(t).pend.Destructor])]
          ELSE factories
    /\ aliases' =
          IF Top(t).pend.kind = "alias"
          THEN [aliases EXCEPT ![Top(t).c] = Append(@,
                  [Tag |-> Top(t).pend.Tag, Aliased |-> Top(t).pend.Aliased])]
          ELSE aliases
    /\ lock' = [lock EXCEPT ![Top(t).c].w = NoHolder]
    /\ threads' = [threads EXCEPT ![t].stack = <<>>]
    /\ UNCHANGED <<parent, cache, destructors, returned>>

\* A variant of Snapshot that copies the list and does not truncate it.
SnapshotKeeping(t) ==
    /\ At(t, "snapshot")
    /\ lock' = [lock EXCEPT ![Top(t).c].w = NoHolder]
    /\ threads' = [threads EXCEPT ![t].stack =
            IF destructors[Top(t).c] = <<>> THEN <<>>
            ELSE <<[Top(t) EXCEPT !.pc = "run",
                               !.dtors = destructors[Top(t).c]]>>]
    /\ UNCHANGED <<parent, aliases, factories, cache, destructors, returned>>

\* dtors := copy of this.destructors; this.destructors =
\* this.destructors[:0]; this.lock.Unlock()
Snapshot(t) ==
    /\ At(t, "snapshot")
    /\ destructors' = [destructors EXCEPT ![Top(t).c] = <<>>]
    /\ lock' = [lock EXCEPT ![Top(t).c].w = NoHolder]
    /\ threads' = [threads EXCEPT ![t].stack =
            IF destructors[Top(t).c] = <<>> THEN <<>>
            ELSE <<[Top(t) EXCEPT !.pc = "run",
                               !.dtors = destructors[Top(t).c]]>>]
    /\ UNCHANGED <<parent, aliases, factories, cache, returned>>

\* err := dtors[i](); if err != nil { return err }, for the last closure
\* not yet invoked
RunOne(t) ==
    /\ At(t, "run")
    /\ threads' = [threads EXCEPT ![t].stack =
            IF Top(t).dtors[Len(Top(t).dtors)].Destructor = "fail"
                   \/ Len(Top(t).dtors) = 1
            THEN <<>>
            ELSE <<[Top(t) EXCEPT !.dtors = SubSeq(@, 1, Len(@) - 1)]>>]
    /\ ThreadsOnly

\* a step of goroutine t inside a call
Step(t) ==
    \/ EnterRead(t) \/ EnterWrite(t) \/ Search(t) \/ SearchTorn(t)
    \/ Lookup(t) \/ ConstructPlain(t) \/ ConstructInject(t) \/ Returned(t)
    \/ Store(t) \/ Record(t) \/ AppendPending(t) \/ Snapshot(t) \/ RunOne(t)

\* --------------------------------------------------------- specifications
Tags == {"a", "b", "c"}
AliasPairs == {<<"a", "b">>, <<"b", "c">>, <<"c", "a">>, <<"a", "a">>}

\* the n-th value registered on a container is n (UseValue("params", 1),
\* UseValue("params", 2), ...)
NextValue(c) == ToString(Len(factories[c]) + 1)

\* Lookup: scopes, aliases and registered values under three tags, and
\* Inject into a struct with a field for each tag
NextLookup ==
    \/ \E p \in Containers : NumSetup < MaxSetup /\ NewScope(p)
    \/ \E c \in Containers, a \in AliasPairs :
            NumSetup < MaxSetup /\ Use(c, a[1], a[2])
    \/ \E c \in Containers, t \in Tags :
            NumSetup < MaxSetup /\ UseValue(c, t, NextValue(c))
    \/ \E c \in Containers, t \in Tags : Resolve(c, t)
    \/ \E c \in Containers, t \in Tags : ResolveAll(c, t)
    \/ \E c \in Containers : Inject(c, "*D")

SpecLookup == Init /\ [][NextLookup]_vars

\* Lifetimes: scopes, an alias, values, and types of every lifetime: *S
\* under "a", and *M, whose field is injected from "a", under "b"
Next ==
    \/ \E p \in Containers : NumSetup < MaxObjSetup /\ NewScope(p)
    \/ \E c \in Containers : NumSetup < MaxObjSetup /\ Use(c, "b", "a")
    \/ \E c \in Containers :
            NumSetup < MaxObjSetup /\ UseValue(c, "a", NextValue(c))
    \/ \E c \in Containers, l \in Lifetime :
            NumSetup < MaxObjSetup /\ UseType(c, "a", "*S", l)
    \/ \E c \in Containers, l \in {Transient, Singleton} :
            NumSetup < MaxObjSetup /\ UseType(c, "b", "*M", l)
    \/ \E c \in Containers, t \in {"a", "b"} : Resolve(c, t)
    \/ \E c \in Containers, t \in {"a", "b"} : ResolveAll(c, t)
    \/ \E c \in Containers : Inject(c, "*M")

Spec == Init /\ [][Next]_vars

\* Teardown: scopes, an alias and factories with a destructor, of every
\* lifetime
NextClose ==
    \/ \E p \in Containers : NumSetup < MaxObjSetup /\ NewScope(p)
    \/ \E c \in Containers : NumSetup < MaxObjSetup /\ Use(c, "b", "a")
    \/ \E c \in Containers, d \in {"ok", "fail"}, l \in Lifetime :
            NumSetup < MaxObjSetup /\ UseFactory(c, "a", "new", d, l)
    \/ \E c \in Containers, t \in {"a", "b"} : Resolve(c, t)
    \/ \E c \in Containers : Close(c)

SpecClose == Init /\ [][NextClose]_vars

\* Factories: scopes and factories of every lifetime, with and without a
\* destructor, whose constructor returns an object or an error; a value, a
\* type and an alias
NextFactory ==
    \/ \E p \in Containers : NumSetup < MaxFactorySetup /\ NewScope(p)
    \/ \E c \in Containers : NumSetup < MaxFactorySetup /\ Use(c, "b", "a")
    \/ \E c \in Containers :
            NumSetup < MaxFactorySetup /\ UseValue(c, "a", NextValue(c))
    \/ \E c \in Containers :
            NumSetup < MaxFactorySetup /\ UseType(c, "a", "*S", Scoped)
    \/ \E c \in Containers, ctor \in {"new", "fail"}, d \in {"nil", "ok"},
          l \in Lifetime :
            NumSetup < MaxFactorySetup /\ UseFactory(c, "a", ctor, d, l)
    \/ \E c \in Containers : Resolve(c, "a")
    \/ \E c \in Containers : ResolveAll(c, "a")
    \/ \E c \in Containers : Close(c)

SpecFactory == Init /\ [][NextFactory]_vars

\* Goroutines that register while others search: scopes, the four
\* registration methods and Use, Resolve and ResolveAll
NextRace ==
    \/ \E p \in Containers :
            NumSetup + NumPending < MaxRaceSetup /\ NewScope(p)
    \/ \E t \in Threads, c \in Containers :
            /\ NumSetup + NumPending < MaxRaceSetup
            /\ StartRegister(t, c, PendFactory("a", Transient,
                   [kind |-> "value", arg |-> NextValue(c)], "nil"))
    \/ \E t \in Threads, c \in Containers :
            /\ NumSetup + NumPending < MaxRaceSetup
            /\ StartRegister(t, c, PendFactory("a", Transient,
                   [kind |-> "type", arg |-> "*S"], "nil"))
    \/ \E t \in Threads, c \in Containers :
            /\ NumSetup + NumPending < MaxRaceSetup
            /\ StartRegister(t, c, PendFactory("a", Transient,
                   [kind |-> "user", arg |-> "new"], "nil"))
    \/ \E t \in Threads, c \in Containers :
            /\ NumSetup + NumPending < MaxRaceSetup
            /\ StartRegister(t, c, PendAlias("b", "a"))
    \/ \E t \in Threads, c \in Containers, tag \in {"a", "b"} :
            StartCall(t, "Resolve", c, tag)
    \/ \E t \in Threads, c \in Containers :
            StartCall(t, "ResolveAll", c, "b")
    \/ \E t \in Threads : EnterRead(t)
    \/ \E t \in Threads : EnterWrite(t)
    \/ \E t \in Threads : Search(t)
    \/ \E t \in Threads : SearchTorn(t)
    \/ \E t \in Threads : ConstructPlain(t)
    \/ \E t \in Threads : AppendPending(t)

SpecRace == Init /\ [][NextRace]_vars

\* Goroutines that resolve cached lifetimes: scopes, factories of the
\* Scoped and Singleton lifetimes, Resolve
NextThreads ==
    \/ \E p \in Containers :
            NumSetup + NumPending < MaxThreadSetup /\ NewScope(p)
    \/ \E t \in Threads, c \in Containers, l \in {Scoped, Singleton} :
            /\ NumSetup + NumPending < MaxThreadSetup
            /\ StartRegister(t, c, PendFactory("a", l,
                   [kind |-> "user", arg |-> "new"], "nil"))
    \/ \E t \in Threads, c \in Containers : StartCall(t, "Resolve", c, "a")
    \/ \E t \in Threads : EnterRead(t)
    \/ \E t \in Threads : EnterWrite(t)
    \/ \E t \in Threads : Search(t)
    \/ \E t \in Threads : SearchTorn(t)
    \/ \E t \in Threads : Lookup(t)
    \/ \E t \in Threads : ConstructPlain(t)
    \/ \E t \in Threads : Store(t)
    \/ \E t \in Threads : AppendPending(t)

SpecThreads == Init /\ [][NextThreads]_vars

\* Goroutines whose calls run user code, on one container: a Scoped
\* factory with a destructor, a type whose constructor injects, Resolve,
\* ResolveAll and Close
NextLocks ==
    \/ \E t \in Threads, c \in Containers :
            /\ NumSetup + NumPending < MaxLockSetup
            /\ StartRegister(t, c, PendFactory("a", Scoped,
                   [kind |-> "user", arg |-> "new"], "ok"))
    \/ \E t \in Threads, c \in Containers :
            /\ NumSetup + NumPending < MaxLockSetup
            /\ StartRegister(t, c, PendFactory("b", Transient,
                   [kind |-> "type", arg |-> "*M"], "nil"))
    \/ \E t \in Threads, c \in Containers, tag \in {"a", "b"} :
            StartCall(t, "Resolve", c, tag)
    \/ \E t \in Threads, c \in Containers : StartCall(t, "ResolveAll", c, "a")
    \/ \E t \in Threads, c \in Containers : StartCall(t, "Close", c, "")
    \/ \E t \in Threads : EnterRead(t)
    \/ \E t \in Threads : EnterWrite(t)
    \/ \E t \in Threads : Search(t)
    \/ \E t \in Threads : Lookup(t)
    \/ \E t \in Threads : ConstructPlain(t)
    \/ \E t \in Threads : ConstructInject(t)
    \/ \E t \in Threads : Returned(t)
    \/ \E t \in Threads : Store(t)
    \/ \E t \in Threads : Record(t)
    \/ \E t \in Threads : AppendPending(t)
    \/ \E t \in Threads : Snapshot(t)
    \/ \E t \in Threads : RunOne(t)

\* A goroutine inside a call is scheduled, and sync.RWMutex lets no
\* goroutine wait for ever for a lock that is released again and again.
SpecLocks == Init /\ [][NextLocks]_vars /\ \A t \in Threads : SF_vars(Step(t))

\* ------------------------------------------------------------- properties
\* What the properties are stated with: the containers a call on c reaches
\* (c, its parent, ... up to the root), the alias set of a tag as the least
\* set closed under the alias edges declared on those containers, and the
\* records of those containers whose tag is in that set.
RECURSIVE Chain(_)
Chain(c) == IF c = 0 THEN <<>> ELSE <<c>> \o Chain(parent[c])

Ancestry(c) == {Chain(c)[k] : k \in 1..Len(Chain(c))}

\* how many steps up from c the container a is
Distance(c, a) == CHOOSE k \in 0..(Len(Chain(c)) - 1) : Chain(c)[k + 1] = a

AliasEdges(c) ==
    UNION {{<<aliases[a][k].Tag, aliases[a][k].Aliased>> :
               k \in 1..Len(aliases[a])} : a \in Ancestry(c)}

RECURSIVE Closure(_, _)
Closure(S, E) ==
    LET T == S \cup {e[2] : e \in {x \in E : x[1] \in S}}
    IN  IF T = S THEN S ELSE Closure(T, E)

AliasSet(c, t) == Closure({t}, AliasEdges(c))

Matching(c, t) ==
    UNION {{<<a, k>> : k \in {j \in 1..Len(factories[a]) :
                                 factories[a][j].Tag \in AliasSet(c, t)}} :
           a \in Ancestry(c)}

FactoryById(id) == factories[id[1]][id[2]]

\* record x shadows record y for a call on c: it is on a closer container,
\* or on the same container and registered later (or is y itself)
Shadows(c, x, y) ==
    \/ Distance(c, x[1]) < Distance(c, y[1])
    \/ x[1] = y[1] /\ x[2] >= y[2]

Range(s) == {s[k] : k \in 1..Len(s)}

Reverse(s) == [k \in 1..Len(s) |-> s[Len(s) - k + 1]]

\* C1: Resolve(t) on c selects, among the records of c and its ancestors
\* whose tag is in the alias set of t, the one on the closest container and,
\* on that container, the one registered last; it returns that record's
\* value.
Shadowing ==
    \A c \in Containers, t \in Tags :
        LET r == ResolveCall(Now, c, t, MaxDepth)
        IN  Matching(c, t) # {} =>
                /\ r.err = NoError
                /\ r.sel \in Matching(c, t)
                /\ \A m \in Matching(c, t) : Shadows(c, r.sel, m)
                /\ r.val = ValueOf(FactoryById(r.sel).Constructor.arg)

\* C1 happens: a record on an ancestor and two on c match, and Resolve on c
\* returns the value registered last on c.
ShadowingSeen ==
    \E c \in Containers, t \in Tags :
        LET r == ResolveCall(Now, c, t, MaxDepth)
        IN  /\ \E m \in Matching(c, t) : m[1] # c
            /\ r.sel[1] = c
            /\ \E m \in Matching(c, t) : m[1] = c /\ m[2] < r.sel[2]
            /\ r.val = ValueOf(ToString(r.sel[2]))

\* C2: the Resolve calls that selected a Scoped record returned the same
\* instance exactly when they were made on the same container, and that
\* instance is the one in the cache of the container the call was made on.
ScopedReuse ==
    \A x \in returned :
        FactoryById(x.f).Lifetime = Scoped =>
            /\ x.f \in DOMAIN cache[x.c]
            /\ cache[x.c][x.f] = x.val
            /\ \A y \in returned :
                   y.f = x.f => ((y.val = x.val) <=> (y.c = x.c))

\* C2 happens: two sibling scopes resolved a Scoped record registered on
\* another container and got different instances, and a further Resolve on
\* one of them returns the instance it got before.
ScopedSeen ==
    \E x, y \in returned :
        /\ x.f = y.f /\ FactoryById(x.f).Lifetime = Scoped
        /\ x.c # y.c /\ parent[x.c] = parent[y.c] /\ x.f[1] # x.c
        /\ x.val # y.val
        /\ \E t \in Tags :
               LET r == ResolveCall(Now, x.c, t, MaxDepth)
               IN  r.sel = x.f /\ r.val = x.val

\* C3: the Resolve calls that selected a Singleton record all returned the
\* same instance, whichever container they were made on; that instance is in
\* the cache of the root, and no other container's cache has an entry for a
\* Singleton record.
SingletonReuse ==
    /\ \A x \in returned :
           FactoryById(x.f).Lifetime = Singleton =>
               /\ x.f \in DOMAIN cache[Root(x.c)]
               /\ cache[Root(x.c)][x.f] = x.val
               /\ \A y \in returned : y.f = x.f => y.val = x.val
    /\ \A c \in Containers : \A id \in DOMAIN cache[c] :
           FactoryById(id).Lifetime = Singleton => parent[c] = 0

\* C3 happens: two scopes resolved the same Singleton record and got the
\* same instance, which the root's cache holds.
SingletonSeen ==
    \E x, y \in returned :
        /\ x.f = y.f /\ FactoryById(x.f).Lifetime = Singleton
        /\ x.c # y.c /\ parent[x.c] # 0 /\ parent[y.c] # 0
        /\ x.val = y.val
        /\ cache[Root(x.c)][x.f] = x.val

\* C4 as stated: two successive Resolve calls that select the same Transient
\* record return different instances.
TransientFresh ==
    \A c \in Containers, t \in Tags :
        LET r1 == ResolveCall(Now, c, t, MaxDepth)
            r2 == ResolveCall(r1.st, c, t, MaxDepth)
        IN  (r1.err = NoError /\ FactoryById(r1.sel).Lifetime = Transient) =>
                (r2.sel = r1.sel /\ r2.val # r1.val)

\* C4, amended: every Resolve that selects a Transient record invokes its
\* constructor and leaves no entry for the record in any cache; two
\* successive calls return different, newly allocated objects when the
\* record was registered by UseType, and the registered value itself, both
\* times, when it was registered by UseValue.
TransientConstructs ==
    /\ \A c \in Containers : \A id \in DOMAIN cache[c] :
           FactoryById(id).Lifetime # Transient
    /\ \A c \in Containers, t \in Tags :
        LET r1 == ResolveCall(Now, c, t, MaxDepth)
            r2 == ResolveCall(r1.st, c, t, MaxDepth)
            n1 == Len(r1.st.called)
        IN  (r1.err = NoError /\ FactoryById(r1.sel).Lifetime = Transient) =>
                /\ n1 > 0 /\ r1.st.called[1] = r1.sel
                /\ r2.err = NoError /\ r2.sel = r1.sel
                /\ Len(r2.st.called) > n1 /\ r2.st.called[n1 + 1] = r1.sel
                /\ \A k \in Containers : r1.sel \notin DOMAIN r2.st.cache[k]
                /\ IF FactoryById(r1.sel).Constructor.kind = "value"
                   THEN /\ r1.val = ValueOf(FactoryById(r1.sel).Constructor.arg)
                        /\ r2.val = r1.val
                   ELSE /\ r1.val.kind = "ptr" /\ r2.val.kind = "ptr"
                        /\ r1.val.addr \notin Live(Now)
                        /\ r2.val.addr \notin Live(r1.st)
                        /\ r2.val # r1.val

\* C4 happens: in one state, Resolve selects a Transient record registered
\* by UseType and returns a new object each time, and Resolve selects a
\* record registered by UseValue and returns its value each time, while a
\* cache holds an instance of another record.
TransientSeen ==
    /\ \E c \in Containers, t \in Tags :
        LET r1 == ResolveCall(Now, c, t, MaxDepth)
            r2 == ResolveCall(r1.st, c, t, MaxDepth)
        IN  /\ r1.err = NoError
            /\ FactoryById(r1.sel).Lifetime = Transient
            /\ FactoryById(r1.sel).Constructor.kind = "type"
            /\ r2.val # r1.val
    /\ \E c \in Containers, t \in Tags :
        LET r1 == ResolveCall(Now, c, t, MaxDepth)
            r2 == ResolveCall(r1.st, c, t, MaxDepth)
        IN  /\ r1.err = NoError
            /\ FactoryById(r1.sel).Constructor.kind = "value"
            /\ r2.val = r1.val
    /\ \E c \in Containers : DOMAIN cache[c] # {}

\* C5: when no record of c or of an ancestor has a tag in the alias set of
\* t, Resolve(t) on c returns ErrNoMatchingTag and nil, invokes no
\* constructor and changes no cache and no destructor list.
NotFound ==
    \A c \in Containers, t \in Tags :
        LET r == ResolveCall(Now, c, t, MaxDepth)
        IN  Matching(c, t) = {} =>
                /\ r.err = ErrNoMatchingTag
                /\ r.val = Nil
                /\ r.st.called = <<>>
                /\ r.st.cache = cache
                /\ r.st.destructors = destructors

\* C5 happens: a tag with an alias on c matches no record of c or its
\* ancestors, though a descendant has one, and Resolve on c fails while a
\* cache and a destructor list hold an instance.
NotFoundSeen ==
    \E c \in Containers, t \in Tags :
        /\ Matching(c, t) = {}
        /\ AliasSet(c, t) # {t}
        /\ \E k \in Containers :
               /\ c \in Ancestry(k) /\ k # c
               /\ \E j \in 1..Len(factories[k]) :
                      factories[k][j].Tag \in AliasSet(c, t)
               /\ DOMAIN cache[k] # {}
        /\ \E k \in Containers : destructors[k] # <<>>
        /\ ResolveCall(Now, c, t, MaxDepth).err = ErrNoMatchingTag

ResolveAllOrder ==
    \A c \in Containers, t \in Tags :
        LET r == ResolveAllCall(Now, c, t)
            n == Len(r.sels)
        IN  /\ r.err = NoError
            /\ Range(r.sels) = Matching(c, t)
            /\ n = Cardinality(Matching(c, t))
            /\ Len(r.vals) = n
            /\ \A k \in 1..n :
                   r.vals[k] = ValueOf(FactoryById(r.sels[k]).Constructor.arg)
            /\ \A j, k \in 1..n :
                   j < k =>
                       \/ Distance(c, r.sels[j][1]) > Distance(c, r.sels[k][1])
                       \/ /\ r.sels[j][1] = r.sels[k][1]
                          /\ r.sels[j][2] < r.sels[k][2]
            /\ n > 0 => r.sels[n] = ResolveCall(Now, c, t, MaxDepth).sel

\* C7 happens: ResolveAll on a scope returns the instance of a record of an
\* ancestor first, then those of two records of the scope, older first.
ResolveAllOrderSeen ==
    \E c \in Containers, t \in Tags :
        LET r == ResolveAllCall(Now, c, t)
            n == Len(r.sels)
        IN  /\ n >= 3
            /\ r.sels[1][1] # c
            /\ r.sels[n - 1][1] = c /\ r.sels[n][1] = c
            /\ r.sels[n - 1][2] < r.sels[n][2]
            /\ r.vals[n] = ValueOf(ToString(r.sels[n][2]))

\* C8: Resolve(t) on c succeeds exactly when a record of c or of an ancestor
\* has a tag in the reflexive-transitive closure of t under the alias edges
\* declared on c and its ancestors, and then returns an instance of such a
\* record; the tags the search uses are exactly that closure, so no alias
\* declared only on another container is followed.
AliasClosure ==
    \A c \in Containers, t \in Tags :
        LET r == ResolveCall(Now, c, t, MaxDepth)
        IN  /\ Range(resolveAliases(c, t)) = AliasSet(c, t)
            /\ (r.err = NoError) <=> (Matching(c, t) # {})
            /\ r.err = NoError => FactoryById(r.sel).Tag \in AliasSet(c, t)

\* C8 happens: "a" is aliased to "b" on the parent and "b" to "c" on the
\* child, a record is registered under "c" on the parent; Resolve("a") on
\* the child returns that record's instance, and Resolve("a") on the parent,
\* where the child's alias does not count, fails.
AliasClosureSeen ==
    \E c \in Containers :
        /\ parent[c] # 0
        /\ \E k \in 1..Len(aliases[parent[c]]) :
               aliases[parent[c]][k] = [Tag |-> "a", Aliased |-> "b"]
        /\ \E k \in 1..Len(aliases[c]) :
               aliases[c][k] = [Tag |-> "b", Aliased |-> "c"]
        /\ LET r == ResolveCall(Now, c, "a", MaxDepth)
           IN  /\ r.err = NoError
               /\ r.sel[1] = parent[c]
               /\ FactoryById(r.sel).Tag = "c"
        /\ ResolveCall(Now, parent[c], "a", MaxDepth).err = ErrNoMatchingTag

\* C9: when every closure on c's destructor list succeeds, Close on c
\* invokes each of them once, the one recorded last first and the one
\* recorded first last, and returns no error.
CloseOrder ==
    \A c \in Containers :
        LET r == CloseCall(c)
        IN  (\A k \in 1..Len(destructors[c]) :
                 destructors[c][k].Destructor = "ok") =>
                /\ r.err = NoError
                /\ r.invoked = Reverse(destructors[c])
                /\ Cardinality(Range(r.invoked)) = Len(destructors[c])

\* C9 happens: three instances are on a container's destructor list, all
\* with a destructor that succeeds, and Close invokes the last one first.
CloseOrderSeen ==
    \E c \in Containers :
        LET r == CloseCall(c)
        IN  /\ Len(destructors[c]) = 3
            /\ \A k \in 1..3 : destructors[c][k].Destructor = "ok"
            /\ r.invoked[1] = destructors[c][3]
            /\ r.invoked[3] = destructors[c][1]
            /\ r.err = NoError

\* C10: when a closure on c's destructor list fails, Close on c returns its
\* error, having invoked the closures recorded after it, last first, then
\* the failing one, and none of those recorded before it.
CloseAbort ==
    \A c \in Containers :
        LET ds == destructors[c]
            r == CloseCall(c)
            failing == {k \in 1..Len(ds) : ds[k].Destructor = "fail"}
        IN  failing # {} =>
                LET k == CHOOSE m \in failing : \A j \in failing : j <= m
                IN  /\ r.err = ErrDestructor
                    /\ r.invoked = Reverse(SubSeq(ds, k, Len(ds)))
                    /\ \A j \in 1..(k - 1) : ds[j] \notin Range(r.invoked)

\* C10 happens: of three closures on a destructor list the second fails;
\* Close invokes the third and the second, not the first, and returns the
\* error.
CloseAbortSeen ==
    \E c \in Containers :
        LET ds == destructors[c]
            r == CloseCall(c)
        IN  /\ Len(ds) = 3
            /\ ds[1].Destructor = "ok"
            /\ ds[2].Destructor = "fail"
            /\ ds[3].Destructor = "ok"
            /\ r.invoked = <<ds[3], ds[2]>>
            /\ r.err = ErrDestructor

\* C11 as stated: when a closure on c's destructor list fails during Close,
\* none of the closures recorded after it is invoked.
CloseSkipsLater ==
    \A c \in Containers :
        LET ds == destructors[c]
            r == CloseCall(c)
            failing == {k \in 1..Len(ds) : ds[k].Destructor = "fail"}
        IN  failing # {} =>
                LET k == CHOOSE m \in failing : \A j \in failing : j <= m
                IN  \A j \in (k + 1)..Len(ds) : ds[j] \notin Range(r.invoked)

\* C11, amended: when a closure on c's destructor list fails during Close,
\* the closures recorded after it have all been invoked before it, and the
\* closures recorded before it are the ones that are not invoked.
CloseSkipsEarlier ==
    \A c \in Containers :
        LET ds == destructors[c]
            r == CloseCall(c)
            n == Len(r.invoked)
        IN  r.err # NoError =>
                /\ n > 0 /\ r.invoked[n].Destructor = "fail"
                /\ \A i \in 1..(n - 1) : r.invoked[i].Destructor = "ok"
                /\ r.invoked[n] = ds[Len(ds) - n + 1]
                /\ \A j \in 1..Len(ds) :
                       (ds[j] \in Range(r.invoked)) <=> (j >= Len(ds) - n + 1)

\* C11 happens: a closure that fails has closures recorded before and after
\* it; Close invokes those recorded after it and the failing one, and not
\* those recorded before it.
CloseSkipsEarlierSeen ==
    \E c \in Containers :
        LET ds == destructors[c]
            r == CloseCall(c)
        IN  \E k \in 2..(Len(ds) - 1) :
                /\ ds[k].Destructor = "fail"
                /\ \A j \in (k + 1)..Len(ds) : ds[j].Destructor = "ok"
                /\ r.err = ErrDestructor
                /\ r.invoked[Len(r.invoked)] = ds[k]
                /\ \A j \in (k + 1)..Len(ds) : ds[j] \in Range(r.invoked)
                /\ \A j \in 1..(k - 1) : ds[j] \notin Range(r.invoked)

\* C12: Close on c invokes only closures of c's own list, which no other
\* list holds, and removes closures from no other list; the closures of
\* Singleton instances are on the root's list only, so Close on another
\* container never invokes one.
CloseLocal ==
    /\ [](\A c \in Containers :
              /\ Range(CloseCall(c).invoked) \subseteq Range(destructors[c])
              /\ \A k \in Containers \ {c} :
                     Range(destructors[k]) \cap Range(destructors[c]) = {}
              /\ \A k \in 1..Len(destructors[c]) :
                     FactoryById(destructors[c][k].f).Lifetime = Singleton
                         => parent[c] = 0)
    /\ [][\A c \in Containers :
              Close(c) => \A k \in Containers \ {c} :
                              destructors'[k] = destructors[k]]_vars

\* C12 happens: a scope whose cache holds an instance with a destructor has
\* been closed (its list is empty), and the root's list still holds the
\* closure of a Singleton instance that was constructed through that scope.
CloseLocalSeen ==
    \E c \in Containers :
        /\ parent[c] # 0
        /\ destructors[c] = <<>>
        /\ \E id \in DOMAIN cache[c] : FactoryById(id).Destructor # "nil"
        /\ \E k \in 1..Len(destructors[Root(c)]) :
               /\ FactoryById(destructors[Root(c)][k].f).Lifetime = Singleton
               /\ destructors[Root(c)][k].instance.addr[3] = c

\* C13: no goroutine reads the factory or alias list of a container, in a
\* Resolve or ResolveAll on that container or on a descendant of it, while
\* another goroutine is appending to a list of that container in a
\* registration method; every such read of the lists of container k is made
\* by a goroutine that holds the lock of k.
ReadsUnderOwnLock ==
    \A t \in Threads :
        /\ ~Races(t)
        /\ \A k \in Containers :
               Reads(t, k) => \E d \in 1..Depth(t) : <<t, d>> \in lock[k].r

\* C14: when Resolve on c constructs a struct registered with UseType, on c
\* or on an ancestor, its tagged field holds what Resolve of the field's tag
\* on c itself returns: the aliases and records of c apply, wherever the
\* type was registered.
FieldFromCaller ==
    \A c \in Containers :
        LET r == ResolveCall(Now, c, "b", MaxDepth)
            fi == ResolveCall(Now, c, "a", MaxDepth)
        IN  (/\ r.err = NoError /\ r.sel # NoId
             /\ FactoryById(r.sel).Constructor.arg = "*M"
             /\ Contains(r.st.called, r.sel)
             /\ fi.err = NoError)
                => r.val.fields[1] = fi.val

\* a type registered on an ancestor of c is constructed through c, and its
\* field comes from a record of c that a call on the ancestor does not see
FieldFromCallerSeen ==
    \E c \in Containers :
        LET r == ResolveCall(Now, c, "b", MaxDepth)
            fi == ResolveCall(Now, c, "a", MaxDepth)
        IN  /\ r.err = NoError /\ r.sel # NoId
            /\ FactoryById(r.sel).Constructor.arg = "*M"
            /\ Contains(r.st.called, r.sel)
            /\ r.sel[1] # c
            /\ fi.err = NoError /\ fi.sel[1] = c
            /\ r.val.fields[1] = fi.val
            /\ ResolveCall(Now, r.sel[1], "a", MaxDepth).err = ErrNoMatchingTag

\* C15: when Resolve on c constructs a struct registered with UseType and
\* the Resolve of its tagged field fails, the outer Resolve returns that
\* error to its caller.
FieldFailureReported ==
    \A c \in Containers :
        LET r == ResolveCall(Now, c, "b", MaxDepth)
            fi == ResolveCall(Now, c, "a", MaxDepth)
        IN  (/\ r.sel # NoId
             /\ FactoryById(r.sel).Constructor.arg = "*M"
             /\ Contains(r.st.called, r.sel)
             /\ fi.err # NoError)
                => r.err = fi.err

\* the records ResolveAll(t) on c constructs, in the order it constructs
\* them, and the places in that order of those whose constructor fails
ConstructionOrder(c, t) == Reverse(MatchingFactories(c, resolveAliases(c, t)))

Failing(order) ==
    {k \in 1..Len(order) : order[k].Constructor.arg = "fail"}

FirstFailing(order) ==
    CHOOSE k \in Failing(order) : \A j \in Failing(order) : k <= j

\* C16: when the constructor of a matching record fails, ResolveAll returns
\* the error of that constructor and no instances, and the constructors of
\* the records after it in the construction order are not invoked.
ResolveAllAborts ==
    \A c \in Containers :
        LET order == ConstructionOrder(c, "a")
            r == ResolveAllCall(Now, c, "a")
        IN  Failing(order) # {} =>
                /\ r.err = ErrConstructor
                /\ r.vals = <<>>
                /\ order[FirstFailing(order)].id \in Range(r.st.called)
                /\ \A j \in (FirstFailing(order) + 1)..Len(order) :
                       order[j].id \notin Range(r.st.called)

\* a constructor fails, and a record after it has a constructor that would
\* have been invoked: it is not cached
ResolveAllAbortsSeen ==
    \E c \in Containers :
        LET order == ConstructionOrder(c, "a")
            r == ResolveAllCall(Now, c, "a")
        IN  /\ Failing(order) # {}
            /\ r.err = ErrConstructor /\ r.vals = <<>>
            /\ \E j \in (FirstFailing(order) + 1)..Len(order) :
                   /\ order[j].Constructor.arg = "new"
                   /\ ~CacheHit(Now, c, order[j])
                   /\ order[j].id \notin Range(r.st.called)

\* what Resolve of the tag of field i of *D returns on c, and the fields
\* whose Resolve fails
FieldResult(c, i) == ResolveCall(Now, c, TypeFieldTags("*D")[i], MaxDepth)

FailingFields(c) ==
    {i \in 1..Len(TypeFieldTags("*D")) : FieldResult(c, i).err # NoError}

FirstFailingField(c) ==
    CHOOSE i \in FailingFields(c) : \A j \in FailingFields(c) : i <= j

\* C17: Inject goes through the tagged fields in declaration order; when
\* Resolve fails for a field, Inject returns that error, the fields before
\* it hold what Resolve returned for them, the failing field and the fields
\* after it are left as they were, and no Resolve is made for the fields
\* after it: the constructors called are those of the fields before it.
InjectStops ==
    \A c \in Containers :
        LET r == InjectCall(Now, c, "*D")
            n == Len(TypeFieldTags("*D"))
        IN  IF FailingFields(c) = {}
            THEN /\ r.err = NoError
                 /\ \A i \in 1..n : r.fields[i] = FieldResult(c, i).val
            ELSE /\ r.err = FieldResult(c, FirstFailingField(c)).err
                 /\ \A i \in 1..(FirstFailingField(c) - 1) :
                        r.fields[i] = FieldResult(c, i).val
                 /\ \A i \in FirstFailingField(c)..n : r.fields[i] = Nil
                 /\ r.st.called =
                        [i \in 1..(FirstFailingField(c) - 1) |->
                            FieldResult(c, i).sel]

\* the first field is assigned, the second fails, and the third, whose
\* Resolve would succeed, is left unassigned
InjectStopsSeen ==
    \E c \in Containers :
        LET r == InjectCall(Now, c, "*D")
        IN  /\ FailingFields(c) = {2}
            /\ r.err = ErrNoMatchingTag
            /\ r.fields[1] # Nil
            /\ r.fields[2] = Nil /\ r.fields[3] = Nil
            /\ Len(r.st.called) = 1

\* the container whose list receives the closure of record f for a call on
\* c: the root of c for a Singleton record, c itself otherwise
ListOf(c, f) ==
    IF f.Lifetime = Singleton THEN Chain(c)[Len(Chain(c))] ELSE c

\* the call r of Resolve on c invoked the constructor of the record it
\* selected, and the constructor returned an instance
ConstructedBy(r) == r.err = NoError /\ r.sel \in Range(r.st.called)

\* C18: Resolve on c appends a closure for the instance it returns exactly
\* when the selected record has a destructor and the call invoked its
\* constructor successfully (not on a cache hit, not for a record without
\* destructor, not when the constructor failed); the closure goes to the
\* list of c for a Transient or Scoped record, to the list of the root for
\* a Singleton record, and no other list changes.
DestructorRecorded ==
    \A c \in Containers :
        LET r == ResolveCall(Now, c, "a", MaxDepth)
        IN  IF /\ r.sel # NoId
               /\ FactoryById(r.sel).Destructor # "nil"
               /\ ConstructedBy(r)
            THEN r.st.destructors =
                    [destructors EXCEPT ![ListOf(c, FactoryById(r.sel))] =
                        Append(@, [f |-> r.sel,
                                   Destructor |-> FactoryById(r.sel).Destructor,
                                   instance |-> r.val])]
            ELSE r.st.destructors = destructors

\* a Singleton record with a destructor is constructed through a scope:
\* the closure goes to the list of the root, not to the list of the scope
DestructorRecordedSeen ==
    \E c \in Containers :
        LET r == ResolveCall(Now, c, "a", MaxDepth)
        IN  /\ parent[c] # 0
            /\ r.sel # NoId
            /\ FactoryById(r.sel).Lifetime = Singleton
            /\ FactoryById(r.sel).Destructor # "nil"
            /\ ConstructedBy(r)
            /\ Len(r.st.destructors[1]) = Len(destructors[1]) + 1
            /\ r.st.destructors[c] = destructors[c]

\* the call at depth d of goroutine t is in a constructor or a destructor
InUserCode(t, d) == threads[t].stack[d].pc \in {"construct", "inject", "run"}

\* the containers whose lock the call at depth d of goroutine t holds
HeldBy(t, d) ==
    {k \in Containers : lock[k].w = <<t, d>> \/ <<t, d>> \in lock[k].r}

NoLockInUserCode ==
    \A t \in Threads : \A d \in 1..Depth(t) :
        InUserCode(t, d) => \A e \in 1..d : HeldBy(t, e) = {}

\* C19: while a constructor or a destructor runs for a call of a goroutine,
\* that call and the calls below it on the goroutine's stack hold no
\* container lock, for reading or for writing; and every call a goroutine
\* is in returns, the Resolve a constructor makes on the same container
\* included.
NoLockAcrossUserCode ==
    /\ []NoLockInUserCode
    /\ \A t \in Threads : []<>(Depth(t) = 0)

\* a constructor is in Inject, the Resolve it made holds the read lock of
\* the container, and the other goroutine waits for the write lock of the
\* same container
NoLockAcrossUserCodeSeen ==
    \E t \in Threads, u \in Threads :
        /\ Depth(t) = 2 /\ InUserCode(t, 1)
        /\ HeldBy(t, 2) = {Top(t).c}
        /\ At(u, "enter") /\ Top(u).op \in {"Register", "Close"}
        /\ Top(u).c = Top(t).c

\* the cache entry the call of the top frame of goroutine t works on
EntryOwner(t) == ListOf(Top(t).c, Current(Top(t)))

\* goroutine t stores the instance it constructed, whatever the cache
\* holds, and returns that instance, which is not the one the other
\* goroutine returned
StoresOwn(t) ==
    Store(t) =>
        /\ cache'[EntryOwner(t)][Current(Top(t)).id] = Top(t).val
        /\ threads'[t].res.val = Top(t).val
        /\ Top(t).val.addr \notin
               {threads[u].res.val.addr : u \in Threads \ {t}}

\* goroutine t finds the record cached and returns the cached instance
ReturnsCached(t) ==
    (Lookup(t) /\ Current(Top(t)).id \in DOMAIN cache[EntryOwner(t)]) =>
        threads'[t].res.val = cache[EntryOwner(t)][Current(Top(t)).id]

\* C20: two goroutines that resolve the same Scoped record on the same
\* container, or the same Singleton record, may both miss the cache and
\* both construct; each stores and returns the instance it constructed,
\* so the cache holds the instance stored last; a cache entry changes in
\* no other step, and a Resolve that finds the entry returns it.
BenignDoubleConstruction ==
    /\ [][\A t \in Threads : StoresOwn(t) /\ ReturnsCached(t)]_vars
    /\ [][(\E t \in Threads : Store(t))
            \/ \A k \in Containers : \A id \in DOMAIN cache[k] :
                   cache'[k][id] = cache[k][id]]_vars
    /\ [](\A c \in Containers :
            LET r == ResolveCall(Now, c, "a", MaxDepth)
            IN  (r.sel # NoId
                 /\ r.sel \in DOMAIN cache[ListOf(c, FactoryById(r.sel))])
                    => r.val = cache[ListOf(c, FactoryById(r.sel))][r.sel])

\* both goroutines constructed an instance of the same record for the same
\* cache, each returned its own, and the cache holds one of the two
BenignDoubleConstructionSeen ==
    \E t \in Threads, u \in Threads :
        /\ Depth(t) = 0 /\ Depth(u) = 0
        /\ threads[t].res.f # NoId
        /\ threads[t].res.f = threads[u].res.f
        /\ ListOf(threads[t].res.c, FactoryById(threads[t].res.f))
              = ListOf(threads[u].res.c, FactoryById(threads[u].res.f))
        /\ threads[t].res.val # threads[u].res.val
        /\ cache[ListOf(threads[u].res.c, FactoryById(threads[u].res.f))]
                 [threads[u].res.f] = threads[u].res.val
        /\ \A c \in {threads[u].res.c, threads[t].res.c} :
               ResolveCall(Now, c, "a", MaxDepth).val = threads[u].res.val

\* one entry was appended to list s, the entries it had are kept in place
AppendedOne(s, t) == Len(t) = Len(s) + 1 /\ SubSeq(t, 1, Len(s)) = s

\* nothing changed but the list named: the factory list of c (which =
\* "factories") or the alias list of c (which = "aliases")
OnlyListOf(c, which) ==
    /\ parent' = parent /\ cache' = cache /\ destructors' = destructors
    /\ Len(factories') = Len(factories) /\ Len(aliases') = Len(aliases)
    /\ \A k \in Containers :
           /\ (k # c \/ which # "factories") => factories'[k] = factories[k]
           /\ (k # c \/ which # "aliases") => aliases'[k] = aliases[k]

\* a record with this tag, lifetime and destructor was appended to the
\* factory list of c, and nothing else changed
FactoryFrame(c, tag, lifetime, dtor) ==
    /\ AppendedOne(factories[c], factories'[c])
    /\ factories'[c][Len(factories'[c])].Tag = tag
    /\ factories'[c][Len(factories'[c])].Lifetime = lifetime
    /\ factories'[c][Len(factories'[c])].Destructor = dtor
    /\ OnlyListOf(c, "factories")

\* C21: Use appends one alias to the alias list of the container it is
\* called on, UseType, UseValue and UseFactory one record to its factory
\* list; the entries already there keep their order and content, and the
\* other list, the cache and the destructor list of the container and
\* every field of every other container are unchanged. NewScope leaves
\* every existing container unchanged and yields a container with empty
\* lists and an empty cache.
RegistrationFrame ==
    [][/\ \A c \in Containers :
            Use(c, "b", "a") =>
                /\ AppendedOne(aliases[c], aliases'[c])
                /\ aliases'[c][Len(aliases'[c])] = [Tag |-> "b", Aliased |-> "a"]
                /\ OnlyListOf(c, "aliases")
       /\ \A c \in Containers :
            UseValue(c, "a", NextValue(c)) =>
                FactoryFrame(c, "a", Transient, "nil")
       /\ \A c \in Containers, l \in Lifetime :
            UseType(c, "a", "*S", l) => FactoryFrame(c, "a", l, "nil")
       /\ \A c \in Containers, ctor \in {"new", "fail"}, d \in {"nil", "ok"},
             l \in Lifetime :
            UseFactory(c, "a", ctor, d, l) => FactoryFrame(c, "a", l, d)
       /\ \A p \in Containers :
            NewScope(p) =>
                /\ parent' = Append(parent, p)
                /\ \A k \in Containers :
                       /\ factories'[k] = factories[k]
                       /\ aliases'[k] = aliases[k]
                       /\ cache'[k] = cache[k]
                       /\ destructors'[k] = destructors[k]
                /\ factories'[Len(parent')] = <<>>
                /\ aliases'[Len(parent')] = <<>>
                /\ cache'[Len(parent')] = EmptyMap
                /\ destructors'[Len(parent')] = <<>>]_vars

\* a record was registered on a container whose cache and destructor list
\* were not empty: the first record is cached, the second, which any later
\* Resolve would have cached, is not
RegistrationFrameSeen ==
    \E c \in Containers :
        /\ Len(factories[c]) = 2
        /\ factories[c][2].Lifetime = Scoped
        /\ factories[c][2].Constructor.arg = "new"
        /\ <<c, 1>> \in DOMAIN cache[c]
        /\ <<c, 2>> \notin DOMAIN cache[c]
        /\ destructors[c] # <<>>

\* the tags that can occur in an alias set: the tags asked for and the
\* names the declarations alias them to
AliasNames == Tags \cup {a[2] : a \in AliasPairs}

\* C22: whatever aliases are declared on a container and its ancestors,
\* cycles and self-aliases included, the loop of resolveAliases comes to
\* its end, after at most as many iterations as there are tags, and its
\* result holds each tag once.
AliasLoopEnds ==
    \A c \in Containers, t \in Tags :
        LET r == AliasLoopWithin(c, <<t>>, 1, Cardinality(AliasNames))
        IN  /\ r.done
            /\ \A j, k \in 1..Len(r.tags) : r.tags[j] = r.tags[k] => j = k
            /\ r.tags = resolveAliases(c, t)

\* the declarations on the chain of c form the cycle a -> b -> c -> a,
\* spread over c and its parent, and the loop collected the three tags
AliasLoopEndsSeen ==
    \E c \in Containers :
        /\ parent[c] # 0
        /\ {<<"a", "b">>, <<"b", "c">>, <<"c", "a">>} \subseteq
              {<<x.Tag, x.Aliased>> : x \in Range(aliases[c])
                                             \cup Range(aliases[parent[c]])}
        /\ aliases[c] # <<>> /\ aliases[parent[c]] # <<>>
        /\ AliasLoopWithin(c, <<"a">>, 1, Cardinality(AliasNames))
              = [tags |-> <<"a", "b", "c">>, done |-> TRUE]

\* how many times the constructor of record id was called
TimesCalled(called, id) ==
    Cardinality({k \in 1..Len(called) : called[k] = id})

\* C23: when the constructor of the record Resolve selected returns an
\* error, Resolve returns that error, no cache and no destructor list
\* changes, and the next Resolve of the same tag on the same container
\* calls the constructor again.
FailureLeavesNoTrace ==
    \A c \in Containers :
        LET r == ResolveCall(Now, c, "a", MaxDepth)
            again == ResolveCall(r.st, c, "a", MaxDepth)
        IN  (r.sel # NoId /\ FactoryById(r.sel).Constructor.arg = "fail") =>
                /\ r.err = ErrConstructor
                /\ r.st.cache = cache
                /\ r.st.destructors = destructors
                /\ again.sel = r.sel
                /\ TimesCalled(again.st.called, r.sel) = 2

\* the failing record is Scoped or Singleton and has a destructor, and the
\* container already has an instance cached and a closure pending
FailureLeavesNoTraceSeen ==
    \E c \in Containers :
        LET r == ResolveCall(Now, c, "a", MaxDepth)
        IN  /\ r.sel # NoId
            /\ FactoryById(r.sel).Constructor.arg = "fail"
            /\ FactoryById(r.sel).Lifetime # Transient
            /\ FactoryById(r.sel).Destructor = "ok"
            /\ r.err = ErrConstructor
            /\ DOMAIN cache[ListOf(c, FactoryById(r.sel))] # {}
            /\ destructors[ListOf(c, FactoryById(r.sel))] # <<>>
            /\ r.st.cache = cache /\ r.st.destructors = destructors

\* Resolve of "a" on c selects a record whose instance is in the cache of c
\* itself: a Scoped record, or a Singleton record when c is the root
CachedOn(c, r) ==
    /\ r.sel # NoId
    /\ FactoryById(r.sel).Lifetime # Transient
    /\ ListOf(c, FactoryById(r.sel)) = c
    /\ r.sel \in DOMAIN cache[c]

\* C24: Close on c leaves every cache as it is; so a Resolve on c of a
\* record cached on c, after a Close as before it, returns the cached
\* instance without calling the constructor and without recording a
\* closure, although Close has invoked the destructor of that instance.
CloseKeepsCache ==
    /\ [][\A c \in Containers : Close(c) => cache' = cache]_vars
    /\ [](\A c \in Containers :
            LET r == ResolveCall(Now, c, "a", MaxDepth)
            IN  CachedOn(c, r) =>
                    /\ r.err = NoError
                    /\ r.val = cache[c][r.sel]
                    /\ r.st.called = <<>>
                    /\ r.st.destructors = destructors
                    /\ r.st.cache = cache)

\* c was closed after an instance of a record with a destructor was
\* cached on it: the list of c is empty, the instance is still cached
CloseKeepsCacheSeen ==
    \E c \in Containers :
        LET r == ResolveCall(Now, c, "a", MaxDepth)
        IN  /\ CachedOn(c, r)
            /\ FactoryById(r.sel).Destructor = "ok"
            /\ destructors[c] = <<>>
            /\ r.val = cache[c][r.sel]
            /\ r.st.destructors[c] = <<>>

\* the closures a running Close of goroutine t has copied and not invoked
Copies(t) == IF At(t, "run") THEN Top(t).dtors ELSE <<>>

\* the closures not yet invoked: on the pending lists and in the copies
Waiting ==
    UNION {Range(destructors[k]) : k \in Containers}
        \cup UNION {Range(Copies(t)) : t \in Threads}

\* where closure d waits: its places on the pending lists and in the copies
ListPlaces(d) ==
    {p \in Containers \X (1..SumLen(destructors, Len(destructors))) :
        p[2] <= Len(destructors[p[1]]) /\ destructors[p[1]][p[2]] = d}

CopyPlaces(d) ==
    {p \in Threads \X (1..(Len(Copies(1)) + Len(Copies(2)))) :
        p[2] <= Len(Copies(p[1])) /\ Copies(p[1])[p[2]] = d}

\* every closure not yet invoked waits in one place, and no closure waits
\* for an instance that a goroutine has constructed and not yet recorded
WaitsOnce ==
    /\ \A d \in Waiting :
           Cardinality(ListPlaces(d)) + Cardinality(CopyPlaces(d)) = 1
    /\ \A t \in Threads :
           (At(t, "store") \/ At(t, "record")) =>
               \A d \in Waiting : d.instance # Top(t).val

\* C25: a closure is invoked at most once, however Resolve and Close
\* calls on a container interleave. A closure enters the pending list once,
\* for an instance just constructed; Close moves the whole list into its
\* copy in one step under the write lock; the closure a Close invokes
\* waits nowhere afterwards; and a closure recorded while a Close runs its
\* copy stays on the list, for the next Close.
TeardownOnce ==
    /\ []WaitsOnce
    /\ [][\A t \in Threads :
            /\ Snapshot(t) =>
                   /\ destructors'[Top(t).c] = <<>>
                   /\ Copies(t)' = destructors[Top(t).c]
            /\ RunOne(t) =>
                   Top(t).dtors[Len(Top(t).dtors)] \notin Waiting'
            /\ Record(t) =>
                   /\ \A u \in Threads : Copies(u)' = Copies(u)
                   /\ destructors'[EntryOwner(t)][Len(destructors'[EntryOwner(t)])]
                          .instance = Top(t).val]_vars

\* a Close is running its copy while a closure recorded after the copy was
\* taken waits on the list of the same container
TeardownOnceSeen ==
    \E t \in Threads :
        /\ At(t, "run")
        /\ Copies(t) # <<>>
        /\ destructors[Top(t).c] # <<>>

\* the closures on the list of c that Close on c does not invoke
Skipped(c) == Range(destructors[c]) \ Range(CloseCall(c).invoked)

\* C26: when Close on c stops at a closure that returned an error, the
\* closures it did not invoke are on no pending list afterwards, and a
\* Close invokes only closures that are on the list of its container: no
\* later Close invokes them.
SkippedDiscarded ==
    /\ [][\A c \in Containers :
            (Close(c) /\ CloseCall(c).err # NoError) =>
                /\ destructors'[c] = <<>>
                /\ \A d \in Skipped(c) : \A k \in Containers :
                       d \notin Range(destructors'[k])]_vars
    /\ [](\A c \in Containers :
            Range(CloseCall(c).invoked) \subseteq Range(destructors[c]))

\* Close on c would stop at a failing closure and leave two closures
\* that were recorded before it uninvoked
SkippedDiscardedSeen ==
    \E c \in Containers :
        /\ CloseCall(c).err = ErrDestructor
        /\ Cardinality(Skipped(c)) = 2
        /\ Len(CloseCall(c).invoked) = 1

\* Resolve of "b" on c, in state st, constructs the struct with the
\* injected field from a Singleton record
WiresSingleton(r) ==
    /\ r.err = NoError /\ r.sel # NoId
    /\ FactoryById(r.sel).Lifetime = Singleton
    /\ FactoryById(r.sel).Constructor.arg = "*M"
    /\ r.sel \in Range(r.st.called)

\* C27: the constructor of a Singleton record runs with the container
\* whose Resolve finds the cache empty: the field it injects is what
\* Resolve of the field's tag returns on that container (nil when that
\* fails), not on the root or on the container of the registration; the
\* instance wired this way is cached on the root and returned to every
\* container that resolves the record afterwards.
FirstResolverWires ==
    \A c \in Containers :
        LET r == ResolveCall(Now, c, "b", MaxDepth)
            fi == ResolveCall(Now, c, "a", MaxDepth)
        IN  WiresSingleton(r) =>
                /\ r.val.fields[1] = (IF fi.err = NoError THEN fi.val ELSE Nil)
                /\ r.st.cache[Chain(c)[Len(Chain(c))]][r.sel] = r.val
                /\ \A k \in Containers :
                       LET later == ResolveCall(r.st, k, "b", MaxDepth)
                       IN  later.sel = r.sel => later.val = r.val

\* a Singleton registered on the root is wired differently by the root and
\* by a scope: resolved first on the scope, its field holds a value of the
\* scope that the root cannot resolve, and the root gets that instance;
\* resolved first on the root, its field is nil, and the scope gets that
\* instance
FirstResolverWiresSeen ==
    \E c \in Containers :
        LET r == ResolveCall(Now, c, "b", MaxDepth)
            q == ResolveCall(Now, 1, "b", MaxDepth)
        IN  /\ parent[c] = 1
            /\ WiresSingleton(r) /\ WiresSingleton(q)
            /\ r.sel = q.sel /\ r.sel[1] = 1
            /\ r.val.fields[1] # Nil
            /\ q.val.fields[1] = Nil
            /\ ResolveCall(Now, 1, "a", MaxDepth).err = ErrNoMatchingTag
            /\ ResolveCall(r.st, 1, "b", MaxDepth).val = r.val
            /\ ResolveCall(q.st, c, "b", MaxDepth).val = q.val
====
